---- MODULE Spec2Model ----
(***************************************************************************)
(* A model of src/offat/utils.py: the OpenAPI document loader              *)
(* (read_openapi_file, read_json, read_yaml), the server URL parser        *)
(* (parse_server_url) and the URI composer (join_uri_path).                *)
(*                                                                         *)
(* Python strings are sequences of one-character strings, so that          *)
(* str.split, str.endswith, str.removeprefix, int(), urlparse and urljoin  *)
(* are computed character by character as the library computes them.       *)
(***************************************************************************)
EXTENDS Integers, Sequences, FiniteSets, TLC

VARIABLES
    \* ---- read_openapi_file / read_json / read_yaml ----
    file_path,   \* the argument of the call in progress
    file,        \* what the file system holds at file_path: "absent", "dir" or a text
    pc,          \* position of the call in the code
    file_ext,    \* local of read_openapi_file (line 82)
    f,           \* the open file object: the text it will read, or "closed"
    attached,    \* TRUE while f's inode is still the one linked at file_path
    ret,         \* outcome of the call
    loader,      \* which format loader the call entered: "none", "json", "yaml"
    opened,      \* TRUE once open() succeeded in this call
    parsedDoc,   \* the structure the deserializer produced, or NoValue
    removed,     \* TRUE once the environment unlinked the file during this call
    \* ---- parse_server_url ----
    url,         \* the argument
    ppc,         \* position of the call
    pret,        \* outcome of the call
    logged,      \* TRUE when logger.error was called (line 224)
    \* ---- join_uri_path ----
    args,        \* the positional arguments
    jpc,         \* position of the call
    jurl,        \* local `url`
    ji           \* index of the next element of args[1:] to fold in

vars == <<file_path, file, pc, file_ext, f, attached, ret, loader, opened,
          parsedDoc, removed, url, ppc, pret, logged, args, jpc, jurl, ji>>

loadVars == <<file_path, file, pc, file_ext, f, attached, ret, loader, opened,
              parsedDoc, removed>>
parseVars == <<url, ppc, pret, logged>>
joinVars == <<args, jpc, jurl, ji>>

-----------------------------------------------------------------------------
(* Python str operations on sequences of characters *)

RECURSIVE Find(_, _, _)
\* s.find(c) from 1-based position i; 0 when absent
Find(s, c, i) ==
    IF i > Len(s) THEN 0
    ELSE IF s[i] = c THEN i
    ELSE Find(s, c, i + 1)

Contains(s, c) == Find(s, c, 1) # 0

RECURSIVE Split(_, _)
\* s.split(c) for a one-character separator c
Split(s, c) ==
    LET i == Find(s, c, 1) IN
    IF i = 0 THEN <<s>>
    ELSE <<SubSeq(s, 1, i - 1)>> \o Split(SubSeq(s, i + 1, Len(s)), c)

RECURSIVE Join(_, _)
\* c.join(parts)
Join(parts, c) ==
    IF Len(parts) = 0 THEN <<>>
    ELSE IF Len(parts) = 1 THEN parts[1]
    ELSE parts[1] \o <<c>> \o Join(Tail(parts), c)

EndsWith(s, c) == Len(s) > 0 /\ s[Len(s)] = c

StartsWith(s, p) == Len(s) >= Len(p) /\ SubSeq(s, 1, Len(p)) = p

RemovePrefix(s, p) == IF StartsWith(s, p) THEN SubSeq(s, Len(p) + 1, Len(s)) ELSE s

LastOf(seq) == seq[Len(seq)]

-----------------------------------------------------------------------------
(* Python values *)

\* the argument None
None == <<"NoneType">>

\* a value: its type and its items (key/value pairs, values written as text)
PyDict(items) == [type |-> "dict", items |-> items]
PyList(items) == [type |-> "list", items |-> items]
PyNone == [type |-> "NoneType", items |-> {}]
NoValue == [type |-> "-", items |-> {}]

ErrorRecord(m) == PyDict({<<"error", m>>})

HasKey(v, k) == v.type = "dict" /\ \E it \in v.items : it[1] = k

Returned(v) == [kind |-> "return", exc |-> "-", value |-> v]
Raised(e) == [kind |-> "raise", exc |-> e, value |-> NoValue]
NoOutcome == [kind |-> "-", exc |-> "-", value |-> NoValue]

-----------------------------------------------------------------------------
(* The documents on disk and what the deserializers make of them *)

\* file contents the model places on disk
TextObj == "{\"a\": 1}"
TextErrKey == "{\"error\": \"File Not Found\"}"
TextYamlMap == "a: 1"
TextList == "[1]"
TextOpenBrace == "{"
TextEmpty == ""
TextUnsafeTag == "!!python/object/apply:os.system [ls]"
\* bytes that are not UTF-8: f.read() raises UnicodeDecodeError
TextBadUtf8 == "\\xff\\xfe"

Texts == {TextObj, TextErrKey, TextYamlMap, TextList, TextOpenBrace, TextEmpty,
          TextUnsafeTag, TextBadUtf8}

DocObj == PyDict({<<"a", "1">>})
DocErrKey == PyDict({<<"error", "File Not Found">>})
DocList == PyList({<<"0", "1">>})

\* the outcome of a deserializer: a value, or the exception it raises
Parsed(v) == [ok |-> TRUE, value |-> v]
ParseError == [ok |-> FALSE, value |-> NoValue]

\* json.loads(text)
json_load(text) ==
    CASE text = TextObj -> Parsed(DocObj)
      [] text = TextErrKey -> Parsed(DocErrKey)
      [] text = TextList -> Parsed(DocList)
      [] OTHER -> ParseError   \* raises JSONDecodeError

\* yaml.safe_load(text)
safe_load(text) ==
    CASE text = TextObj -> Parsed(DocObj)
      [] text = TextErrKey -> Parsed(DocErrKey)
      [] text = TextYamlMap -> Parsed(DocObj)
      [] text = TextList -> Parsed(DocList)
      [] text = TextEmpty -> Parsed(PyNone)
      [] OTHER -> ParseError   \* raises YAMLError (ParserError, ConstructorError)

\* the paths the model calls the loader with
PathJson == <<"a", ".", "j", "s", "o", "n">>
PathYaml == <<"a", ".", "y", "a", "m", "l">>
PathYml == <<"a", ".", "y", "m", "l">>
PathTxt == <<"a", ".", "t", "x", "t">>
PathUpper == <<"a", ".", "J", "S", "O", "N">>
PathTwoDots == <<"a", ".", "b", ".", "j", "s", "o", "n">>
PathBak == <<"a", ".", "j", "s", "o", "n", ".", "b", "a", "k">>
PathNoDot == <<"a">>
PathEmpty == <<>>

Paths == {None, PathEmpty, PathJson, PathYaml, PathYml, PathTxt, PathUpper,
          PathTwoDots, PathBak, PathNoDot}

ExtJson == <<"j", "s", "o", "n">>
ExtYaml == <<"y", "a", "m", "l">>

\* what the file system can hold at a path
FileStates == {"absent", "dir"} \cup Texts

\* nothing can be created at the empty path, and None names no path
FileStatesAt(p) == IF p = None \/ p = PathEmpty THEN {"absent"} ELSE FileStates

\* os.path.exists in place of os.path.isfile: a directory passes the check
isfile_exists(p, fs) == fs # "absent"

\* os.path.isfile(path) for a str path: stat() succeeds and names a regular file
isfile(p, fs) == fs \in Texts

\* bool(file_path) is False
Falsy(p) == p = None \/ p = <<>>

-----------------------------------------------------------------------------
(* read_openapi_file, read_json, read_yaml *)

FileNotFound == Returned(ErrorRecord("File Not Found"))

Finish(outcome) ==
    /\ ret' = outcome
    /\ pc' = "done"

\* a caller invokes read_openapi_file(p); the file system holds fs at p
LoadCall ==
    /\ pc = "idle"
    /\ \E p \in Paths : \E fs \in FileStatesAt(p) :
          /\ file_path' = p
          /\ file' = fs
    /\ pc' = "L79"
    /\ UNCHANGED <<file_ext, f, attached, ret, loader, opened, parsedDoc, removed>>
    /\ UNCHANGED <<parseVars, joinVars>>

\* file_path.split('.')[1] in place of [-1]: the text after the first '.'
FileExtFirst(p) == IF Len(Split(p, ".")) > 1 THEN Split(p, ".")[2] ELSE p

\* line 82: file_path.split('.')[-1]
FileExt(p) == LastOf(Split(p, "."))

\* lines 83-89: the match on file_ext
Dispatch(ext) ==
    /\ file_ext' = ext
    /\ CASE ext = ExtJson -> /\ loader' = "json"
                             /\ pc' = "json_L59"
                             /\ ret' = ret
         [] ext = ExtYaml -> /\ loader' = "yaml"
                             /\ pc' = "yaml_L36"
                             /\ ret' = ret
         [] OTHER -> /\ Finish(Returned(ErrorRecord("Invalid file extension")))
                     /\ loader' = loader

\* read_openapi_file lines 79-89: the existence check and the dispatch
ReadOpenapiFile ==
    /\ pc = "L79"
    /\ IF file_path = None
       THEN \* os.stat(None) raises TypeError, which isfile does not catch
            /\ Finish(Raised("TypeError"))
            /\ UNCHANGED <<file_ext, loader>>
       ELSE IF ~isfile(file_path, file)
       THEN /\ Finish(FileNotFound)
            /\ UNCHANGED <<file_ext, loader>>
       ELSE Dispatch(FileExt(file_path))
    /\ UNCHANGED <<file_path, file, f, attached, opened, parsedDoc, removed>>
    /\ UNCHANGED <<parseVars, joinVars>>

\* read_json lines 59-60
ReadJsonCheck ==
    /\ pc = "json_L59"
    /\ IF ~isfile(file_path, file)
       THEN Finish(FileNotFound)
       ELSE pc' = "json_L62" /\ ret' = ret
    /\ UNCHANGED <<file_path, file, file_ext, f, attached, loader, opened, parsedDoc,
                   removed>>
    /\ UNCHANGED <<parseVars, joinVars>>

\* read_yaml lines 36-40
ReadYamlCheck ==
    /\ pc = "yaml_L36"
    /\ IF Falsy(file_path)
       THEN Finish(Returned(ErrorRecord("ValueError, path cannot be of None type")))
       ELSE IF ~isfile(file_path, file)
       THEN Finish(FileNotFound)
       ELSE pc' = "yaml_L42" /\ ret' = ret
    /\ UNCHANGED <<file_path, file, file_ext, f, attached, loader, opened, parsedDoc,
                   removed>>
    /\ UNCHANGED <<parseVars, joinVars>>

\* open(file_path, 'r', encoding='utf-8') at line 42 or 62
Open(at, next) ==
    /\ pc = at
    /\ CASE file = "absent" -> /\ Finish(Raised("FileNotFoundError"))
                               /\ UNCHANGED <<f, attached, opened>>
         [] file = "dir" -> /\ Finish(Raised("IsADirectoryError"))
                            /\ UNCHANGED <<f, attached, opened>>
         [] OTHER -> /\ f' = file
                     /\ attached' = TRUE
                     /\ opened' = TRUE
                     /\ pc' = next
                     /\ ret' = ret
    /\ UNCHANGED <<file_path, file, file_ext, loader, parsedDoc, removed>>
    /\ UNCHANGED <<parseVars, joinVars>>

ReadJsonOpen == Open("json_L62", "json_L64")

ReadYamlOpen == Open("yaml_L42", "yaml_L44")

\* f.read(), the deserializer (r its outcome on the text read) and the except
\* clause; the with block closes f
ReadAndParse(at, r, message) ==
    /\ pc = at
    /\ IF f = TextBadUtf8
       THEN /\ Finish(Raised("UnicodeDecodeError"))
            /\ parsedDoc' = parsedDoc
       ELSE IF r.ok
       THEN /\ Finish(Returned(r.value))
            /\ parsedDoc' = r.value
       ELSE /\ Finish(Returned(ErrorRecord(message)))
            /\ parsedDoc' = parsedDoc
    /\ f' = "closed"
    /\ attached' = FALSE
    /\ UNCHANGED <<file_path, file, file_ext, loader, opened, removed>>
    /\ UNCHANGED <<parseVars, joinVars>>

\* read_json lines 63-66
ReadJsonParse == ReadAndParse("json_L64", json_load(f), "JSON error")

\* read_yaml lines 43-46
ReadYamlParse == ReadAndParse("yaml_L44", safe_load(f), "YAML error")

\* the caller takes the outcome; the next call starts afresh
LoadReturn ==
    /\ pc = "done"
    /\ pc' = "idle"
    /\ file_path' = PathEmpty
    /\ file' = "absent"
    /\ file_ext' = <<>>
    /\ f' = "closed"
    /\ attached' = FALSE
    /\ ret' = NoOutcome
    /\ loader' = "none"
    /\ opened' = FALSE
    /\ parsedDoc' = NoValue
    /\ removed' = FALSE
    /\ UNCHANGED <<parseVars, joinVars>>

InCall == pc \notin {"idle", "done"}

\* another process unlinks the file while the call runs
EnvUnlink ==
    /\ InCall
    /\ file \in Texts
    /\ file' = "absent"
    /\ attached' = FALSE
    /\ removed' = TRUE
    /\ UNCHANGED <<file_path, pc, file_ext, f, ret, loader, opened, parsedDoc>>
    /\ UNCHANGED <<parseVars, joinVars>>

\* another process creates a file or a directory at the path while the call runs
EnvCreate(fs) ==
    /\ InCall
    /\ file = "absent"
    /\ fs \in FileStatesAt(file_path) \ {"absent"}
    /\ file' = fs
    /\ UNCHANGED <<file_path, pc, file_ext, f, attached, ret, loader, opened,
                   parsedDoc, removed>>
    /\ UNCHANGED <<parseVars, joinVars>>

\* another process rewrites the file in place while the call runs
EnvWrite(t) ==
    /\ InCall
    /\ file \in Texts
    /\ file' = t
    /\ f' = IF attached /\ f # "closed" THEN t ELSE f
    /\ UNCHANGED <<file_path, pc, file_ext, attached, ret, loader, opened,
                   parsedDoc, removed>>
    /\ UNCHANGED <<parseVars, joinVars>>

LoadInit ==
    /\ file_path = PathEmpty
    /\ file = "absent"
    /\ pc = "idle"
    /\ file_ext = <<>>
    /\ f = "closed"
    /\ attached = FALSE
    /\ ret = NoOutcome
    /\ loader = "none"
    /\ opened = FALSE
    /\ parsedDoc = NoValue
    /\ removed = FALSE

-----------------------------------------------------------------------------
(* urllib.parse, on the characters the model's URLs are written with.        *)
(* The URLs hold no ';', '[', ']', whitespace or non-ASCII character, so     *)
(* the params split, the IPv6 bracket check, the stripping of control        *)
(* characters and the NFKC check of the netloc never apply.                  *)

Digits == {"0", "1", "2", "3", "4", "5", "6", "7", "8", "9"}
LowerLetters == {"a", "b", "c", "d", "e", "f", "h", "i", "l", "m", "n", "o", "p",
                 "s", "t", "u", "v", "x", "y"}
UpperLetters == {"B", "H", "P", "S", "T"}

\* str.lower() of one character
Lower(c) ==
    CASE c = "B" -> "b"
      [] c = "H" -> "h"
      [] c = "P" -> "p"
      [] c = "S" -> "s"
      [] c = "T" -> "t"
      [] OTHER -> c

LowerStr(s) == [k \in 1..Len(s) |-> Lower(s[k])]

IsAlpha(c) == c \in LowerLetters \cup UpperLetters

\* urllib.parse.scheme_chars
scheme_chars == LowerLetters \cup UpperLetters \cup Digits \cup {"+", "-", "."}

SchemeHttp == <<"h", "t", "t", "p">>
SchemeHttps == <<"h", "t", "t", "p", "s">>
SchemeFtp == <<"f", "t", "p">>

\* urllib.parse.uses_relative and uses_netloc, cut down to the schemes the
\* model's URLs can spell (both lists hold '', ftp, http and https)
uses_relative == {<<>>, SchemeFtp, SchemeHttp, SchemeHttps}
uses_netloc == {<<>>, SchemeFtp, SchemeHttp, SchemeHttps}

\* 1-based position of the first of '/', '?', '#' at or after i; Len(s)+1 if none
RECURSIVE NetlocEnd(_, _)
NetlocEnd(s, i) ==
    IF i > Len(s) THEN Len(s) + 1
    ELSE IF s[i] \in {"/", "?", "#"} THEN i
    ELSE NetlocEnd(s, i + 1)

\* text before the first c, and text after it ('' when c is absent)
Before(s, c) == LET i == Find(s, c, 1) IN IF i = 0 THEN s ELSE SubSeq(s, 1, i - 1)
After(s, c) == LET i == Find(s, c, 1) IN IF i = 0 THEN <<>> ELSE SubSeq(s, i + 1, Len(s))

\* the scheme test of urlsplit: a ':' after the first character, preceded by a
\* letter and then by scheme characters only
HasScheme(u) ==
    /\ Find(u, ":", 1) > 1
    /\ IsAlpha(u[1])
    /\ \A k \in 1..(Find(u, ":", 1) - 1) : u[k] \in scheme_chars

SchemeOf(u, default) == IF HasScheme(u) THEN LowerStr(Before(u, ":")) ELSE default

AfterScheme(u) == IF HasScheme(u) THEN After(u, ":") ELSE u

\* _splitnetloc(rest, 2), when rest starts with '//'
NetlocOf(rest) ==
    IF StartsWith(rest, <<"/", "/">>)
    THEN SubSeq(rest, 3, NetlocEnd(rest, 3) - 1)
    ELSE <<>>

AfterNetloc(rest) ==
    IF StartsWith(rest, <<"/", "/">>)
    THEN SubSeq(rest, NetlocEnd(rest, 3), Len(rest))
    ELSE rest

\* the '#' and '?' splits of what follows the netloc
SplitResult(scheme, netloc, rest) ==
    [scheme |-> scheme, netloc |-> netloc,
     path |-> Before(Before(rest, "#"), "?"),
     query |-> After(Before(rest, "#"), "?"),
     fragment |-> After(rest, "#")]

SplitRest(scheme, rest) == SplitResult(scheme, NetlocOf(rest), AfterNetloc(rest))

\* urlparse(u, scheme=default): scheme, netloc, path, query, fragment
urlparse(u, default) == SplitRest(SchemeOf(u, default), AfterScheme(u))

\* urlunsplit: '//' + netloc in front of the path, when there is a netloc or the
\* scheme takes one
WithNetloc(scheme, netloc, path) ==
    IF netloc # <<>> \/ (scheme # <<>> /\ scheme \in uses_netloc
                         /\ ~StartsWith(path, <<"/", "/">>))
    THEN <<"/", "/">> \o netloc
         \o (IF path # <<>> /\ path[1] # "/" THEN <<"/">> ELSE <<>>) \o path
    ELSE path

WithScheme(scheme, u) == IF scheme # <<>> THEN scheme \o <<":">> \o u ELSE u

WithQuery(u, query) == IF query # <<>> THEN u \o <<"?">> \o query ELSE u

WithFragment(u, fragment) == IF fragment # <<>> THEN u \o <<"#">> \o fragment ELSE u

\* urlunparse((scheme, netloc, path, '', query, fragment))
urlunparse(scheme, netloc, path, query, fragment) ==
    WithFragment(WithQuery(WithScheme(scheme, WithNetloc(scheme, netloc, path)),
                           query),
                 fragment)

\* filter(None, parts): the non-empty elements
RECURSIVE NonEmpty(_)
NonEmpty(parts) ==
    IF Len(parts) = 0 THEN <<>>
    ELSE IF Head(parts) = <<>> THEN NonEmpty(Tail(parts))
    ELSE <<Head(parts)>> \o NonEmpty(Tail(parts))

\* the loop of urljoin that resolves '.' and '..'
RECURSIVE ResolveDots(_, _)
ResolveDots(segments, resolved) ==
    IF Len(segments) = 0 THEN resolved
    ELSE IF Head(segments) = <<".", ".">>
    THEN ResolveDots(Tail(segments),
                     IF Len(resolved) = 0 THEN resolved
                     ELSE SubSeq(resolved, 1, Len(resolved) - 1))
    ELSE IF Head(segments) = <<".">>
    THEN ResolveDots(Tail(segments), resolved)
    ELSE ResolveDots(Tail(segments), Append(resolved, Head(segments)))

\* base_parts: the base path split at '/', without a last part that is no directory
BaseParts(parts) ==
    IF LastOf(parts) # <<>> THEN SubSeq(parts, 1, Len(parts) - 1) ELSE parts

\* segments[1:-1] = filter(None, segments[1:-1])
FilterMiddle(parts) ==
    IF Len(parts) <= 2 THEN parts
    ELSE <<parts[1]>> \o NonEmpty(SubSeq(parts, 2, Len(parts) - 1))
         \o <<parts[Len(parts)]>>

Segments(bpath, path) ==
    IF StartsWith(path, <<"/">>)
    THEN Split(path, "/")
    ELSE FilterMiddle(BaseParts(Split(bpath, "/")) \o Split(path, "/"))

\* resolved_path, with the '' appended after a final '.' or '..'
ResolvedPath(segments) ==
    IF LastOf(segments) \in {<<".">>, <<".", ".">>}
    THEN Append(ResolveDots(segments, <<>>), <<>>)
    ELSE ResolveDots(segments, <<>>)

\* '/'.join(resolved_path) or '/'
OrSlash(path) == IF path = <<>> THEN <<"/">> ELSE path

\* urljoin once both URLs are parsed: b the base, r the reference u
JoinParsed(u, b, r) ==
    IF r.scheme # b.scheme \/ r.scheme \notin uses_relative THEN u
    ELSE IF r.scheme \in uses_netloc /\ r.netloc # <<>>
    THEN urlunparse(r.scheme, r.netloc, r.path, r.query, r.fragment)
    ELSE IF r.path = <<>>
    THEN urlunparse(r.scheme, b.netloc, b.path,
                    IF r.query = <<>> THEN b.query ELSE r.query, r.fragment)
    ELSE urlunparse(r.scheme, b.netloc,
                    OrSlash(Join(ResolvedPath(Segments(b.path, r.path)), "/")),
                    r.query, r.fragment)

JoinOnBase(u, b) == JoinParsed(u, b, urlparse(u, b.scheme))

\* urljoin(base, u)
urljoin(base, u) ==
    IF base = <<>> THEN u
    ELSE IF u = <<>> THEN base
    ELSE JoinOnBase(u, urlparse(base, <<>>))

-----------------------------------------------------------------------------
(* int(token), for tokens without whitespace *)

DigitValue(c) ==
    CASE c = "0" -> 0 [] c = "1" -> 1 [] c = "2" -> 2 [] c = "3" -> 3 [] c = "4" -> 4
      [] c = "5" -> 5 [] c = "6" -> 6 [] c = "7" -> 7 [] c = "8" -> 8 [] c = "9" -> 9

HasSign(tok) == Len(tok) > 0 /\ tok[1] \in {"+", "-"}

Unsigned(tok) == IF HasSign(tok) THEN Tail(tok) ELSE tok

\* the literal int() accepts: an optional sign, then digits, with single
\* underscores allowed between digits
IsIntLiteral(tok) ==
    LET d == Unsigned(tok) IN
    /\ Len(d) > 0
    /\ \A k \in 1..Len(d) : d[k] \in Digits \cup {"_"}
    /\ d[1] # "_"
    /\ d[Len(d)] # "_"
    /\ \A k \in 1..(Len(d) - 1) : ~(d[k] = "_" /\ d[k + 1] = "_")

RECURSIVE DecimalValue(_, _)
DecimalValue(d, acc) ==
    IF Len(d) = 0 THEN acc
    ELSE IF Head(d) = "_" THEN DecimalValue(Tail(d), acc)
    ELSE DecimalValue(Tail(d), 10 * acc + DigitValue(Head(d)))

IntValue(tok) ==
    IF HasSign(tok) /\ tok[1] = "-"
    THEN 0 - DecimalValue(Unsigned(tok), 0)
    ELSE DecimalValue(Unsigned(tok), 0)

-----------------------------------------------------------------------------
(* parse_server_url *)

\* lines 216-230: the host
HostOf(netloc) == IF Contains(netloc, ":") THEN Split(netloc, ":")[1] ELSE netloc

\* lines 218-223: int(tokens[1]) raises ValueError
BadPort(netloc) == Contains(netloc, ":") /\ ~IsIntLiteral(Split(netloc, ":")[2])

\* the port with the default fixed at 80, whatever the scheme
PortOfDefault80(scheme, netloc) ==
    IF Contains(netloc, ":") /\ ~BadPort(netloc)
    THEN IntValue(Split(netloc, ":")[2])
    ELSE 80

\* lines 217-223: the port
PortOf(scheme, netloc) ==
    IF Contains(netloc, ":") /\ ~BadPort(netloc)
    THEN IntValue(Split(netloc, ":")[2])
    ELSE IF scheme = SchemeHttps THEN 443 ELSE 80

\* a scheme list that lets ftp through
AllowedSchemesWithFtp == {SchemeHttp, SchemeHttps, SchemeFtp}

\* line 232: ['http', 'https']
AllowedSchemes == {SchemeHttp, SchemeHttps}

\* lines 216-235, on the parsed URL
ParseParsed(parsed_url) ==
    IF parsed_url.scheme \notin AllowedSchemes
    THEN [kind |-> "raise", exc |-> "ValueError: only http and https schemes are allowed",
          scheme |-> <<>>, host |-> <<>>, port |-> 0, path |-> <<>>,
          logged |-> BadPort(parsed_url.netloc)]
    ELSE [kind |-> "return", exc |-> "-",
          scheme |-> parsed_url.scheme,
          host |-> HostOf(parsed_url.netloc),
          port |-> PortOf(parsed_url.scheme, parsed_url.netloc),
          path |-> parsed_url.path,
          logged |-> BadPort(parsed_url.netloc)]

\* the outcome of parse_server_url(u): the returned tuple or the exception,
\* and whether logger.error was called
parse_server_url(u) == ParseParsed(urlparse(u, <<>>))

NoParse == [kind |-> "-", exc |-> "-", scheme |-> <<>>, host |-> <<>>, port |-> 0,
            path |-> <<>>]

\* the URLs the model parses: a scheme, a separator, a host, a port part, a tail
UrlSchemes == {<<>>, SchemeHttp, SchemeHttps, SchemeFtp, <<"H", "T", "T", "P">>,
               <<"1", "h", "t", "t", "p">>}
UrlSeparators == {<<>>, <<":">>, <<":", "/">>, <<":", "/", "/">>, <<"/", "/">>}
UrlHosts == {<<>>, <<"a">>, <<"a", ".", "b">>}
UrlPorts == {<<>>, <<":">>, <<":", "1">>, <<":", "8", "0">>,
             <<":", "8", "0", "8", "0">>, <<":", "0">>, <<":", "-", "1">>,
             <<":", "6", "5", "5", "3", "5">>, <<":", "6", "5", "5", "3", "6">>,
             <<":", "9", "9", "9", "9", "9">>, <<":", "8", "x">>, <<":", "+", "8">>,
             <<":", "8", "_", "0">>, <<":", "_", "8">>, <<":", "-">>,
             <<":", "8", "0", ":", "9", "0">>, <<":", "x", ":", "9", "0">>}
UrlTails == {<<>>, <<"/", "v", "1">>, <<"?", "x">>, <<"/", "a", ":", "b">>}

Urls == {s \o sep \o h \o pt \o t :
            s \in UrlSchemes, sep \in UrlSeparators, h \in UrlHosts,
            pt \in UrlPorts, t \in UrlTails}

ParseCall ==
    /\ ppc = "idle"
    /\ \E u \in Urls : url' = u
    /\ ppc' = "called"
    /\ UNCHANGED <<pret, logged>>
    /\ UNCHANGED <<loadVars, joinVars>>

ParseDone(r) ==
    /\ pret' = [kind |-> r.kind, exc |-> r.exc, scheme |-> r.scheme,
                host |-> r.host, port |-> r.port, path |-> r.path]
    /\ logged' = r.logged

\* parse_server_url lines 214-235
ParseServerUrl ==
    /\ ppc = "called"
    /\ ParseDone(parse_server_url(url))
    /\ ppc' = "done"
    /\ url' = url
    /\ UNCHANGED <<loadVars, joinVars>>

ParseReturn ==
    /\ ppc = "done"
    /\ ppc' = "idle"
    /\ url' = <<>>
    /\ pret' = NoParse
    /\ logged' = FALSE
    /\ UNCHANGED <<loadVars, joinVars>>

ParseInit ==
    /\ url = <<>>
    /\ ppc = "idle"
    /\ pret = NoParse
    /\ logged = FALSE

-----------------------------------------------------------------------------
(* join_uri_path, with the default remove_prefix *)

remove_prefix == <<"/">>

\* the '/' appended without the endswith test
WithSlashAlways(u) == u \o <<"/">>

\* lines 262-263 and 266-267
WithSlash(u) == IF EndsWith(u, "/") THEN u ELSE u \o <<"/">>

\* one pass of the loop without removeprefix
JoinOneNoStrip(u, uri) == urljoin(WithSlash(u), uri)

\* one pass of the loop at lines 265-268
JoinOne(u, uri) == urljoin(WithSlash(u), RemovePrefix(uri, remove_prefix))

RECURSIVE JoinFrom(_, _)
JoinFrom(u, rest) ==
    IF Len(rest) = 0 THEN u
    ELSE JoinFrom(JoinOne(u, Head(rest)), Tail(rest))

\* join_uri_path(*a)
join_uri_path(a) == JoinFrom(WithSlash(a[1]), Tail(a))

\* the segments the model joins: '/' followed by up to MaxTail characters of
\* SegChars, and a few longer ones
MaxTail == 2
MaxSegs == 2

SegChars == {"/", "a"}

CharSegs == {<<"/">> \o t : t \in UNION {[1..k -> SegChars] : k \in 0..MaxTail}}

SegV2 == <<"/", "v", "2", "/">>
SegPet == <<"/", "p", "e", "t", "/", "f", "i", "n", "d", "B", "y", "S", "t", "a",
            "t", "u", "s", "/">>
MoreSegs == {SegV2, SegPet,
             <<"/", ".">>, <<"/", ".", ".">>, <<"/", ".", ".", "/", "b">>,
             <<"/", "a", ":", "b">>, <<"/", "b", "?", "x">>, <<"b">>,
             <<"h", "t", "t", "p", ":", "/", "/", "b", "/">>}

Segs == CharSegs \cup MoreSegs

BaseExample == <<"h", "t", "t", "p", "s", ":", "/", "/", "e", "x", "a", "m", "p",
                 "l", "e", ".", "c", "o", "m">>
BaseA == SchemeHttp \o <<":", "/", "/", "a">>
Bases == {BaseExample, BaseA, BaseA \o <<"/">>, BaseA \o <<"/", "v", "1">>,
          BaseA \o <<"/", "/", "b">>, <<"a">>, <<>>}

ArgLists == {<<b>> \o t : b \in Bases, t \in UNION {[1..k -> Segs] : k \in 0..MaxSegs}}

JoinCall ==
    /\ jpc = "idle"
    /\ \E a \in ArgLists : args' = a
    /\ jpc' = "L261"
    /\ UNCHANGED <<jurl, ji>>
    /\ UNCHANGED <<loadVars, parseVars>>

\* lines 261-263
JoinStart ==
    /\ jpc = "L261"
    /\ jurl' = WithSlash(args[1])
    /\ ji' = 2
    /\ jpc' = "L265"
    /\ UNCHANGED args
    /\ UNCHANGED <<loadVars, parseVars>>

\* lines 265-268: the next uri of args[1:]
JoinLoop ==
    /\ jpc = "L265"
    /\ ji <= Len(args)
    /\ jurl' = JoinOne(jurl, args[ji])
    /\ ji' = ji + 1
    /\ UNCHANGED <<args, jpc>>
    /\ UNCHANGED <<loadVars, parseVars>>

\* line 270
JoinFinish ==
    /\ jpc = "L265"
    /\ ji > Len(args)
    /\ jpc' = "done"
    /\ UNCHANGED <<args, jurl, ji>>
    /\ UNCHANGED <<loadVars, parseVars>>

JoinReturn ==
    /\ jpc = "done"
    /\ jpc' = "idle"
    /\ args' = <<>>
    /\ jurl' = <<>>
    /\ ji' = 0
    /\ UNCHANGED <<loadVars, parseVars>>

JoinInit ==
    /\ args = <<>>
    /\ jpc = "idle"
    /\ jurl = <<>>
    /\ ji = 0

-----------------------------------------------------------------------------
(* Specifications *)

Init == LoadInit /\ ParseInit /\ JoinInit

\* the loader, with the file system changing only between calls
NextLoad ==
    \/ LoadCall
    \/ ReadOpenapiFile
    \/ ReadJsonCheck
    \/ ReadYamlCheck
    \/ ReadJsonOpen
    \/ ReadYamlOpen
    \/ ReadJsonParse
    \/ ReadYamlParse
    \/ LoadReturn

SpecLoad == Init /\ [][NextLoad]_vars

\* the loader, with other processes changing the file system during a call
NextRace ==
    \/ NextLoad
    \/ EnvUnlink
    \/ \E fs \in FileStates : EnvCreate(fs)
    \/ \E t \in Texts : EnvWrite(t)

SpecRace == Init /\ [][NextRace]_vars

NextParse ==
    \/ ParseCall
    \/ ParseServerUrl
    \/ ParseReturn

SpecParse == Init /\ [][NextParse]_vars

NextJoin ==
    \/ JoinCall
    \/ JoinStart
    \/ JoinLoop
    \/ JoinFinish
    \/ JoinReturn

SpecJoin == Init /\ [][NextJoin]_vars

\* the whole module, used by one caller that makes one call at a time
Next ==
    \/ ppc = "idle" /\ jpc = "idle" /\ NextRace
    \/ pc = "idle" /\ jpc = "idle" /\ NextParse
    \/ pc = "idle" /\ ppc = "idle" /\ NextJoin

Spec == Init /\ [][Next]_vars

-----------------------------------------------------------------------------
(* Properties of the loader *)

LoaderMessages == {"File Not Found", "Invalid file extension", "JSON error",
                   "YAML error"}

\* the text after the last '.' of a path (the whole path when it has no '.')
AfterLastDot(p) ==
    IF \E k \in 1..Len(p) : p[k] = "."
    THEN SubSeq(p, 1 + CHOOSE k \in 1..Len(p) :
                        p[k] = "." /\ \A j \in (k + 1)..Len(p) : p[j] # ".",
                Len(p))
    ELSE p

MissingFile == file \notin Texts

BadExtension == file \in Texts /\ AfterLastDot(file_path) \notin {ExtJson, ExtYaml}

\* decodable text that the deserializer of the file's format rejects
MalformedContent ==
    /\ file \in Texts \ {TextBadUtf8}
    /\ \/ AfterLastDot(file_path) = ExtJson /\ ~json_load(file).ok
       \/ AfterLastDot(file_path) = ExtYaml /\ ~safe_load(file).ok

\* C1: for a path given as a string, a call that meets a missing file, an
\* unrecognized extension or malformed JSON/YAML content does not raise: it
\* returns the single-key record {error: m}, m one of 'File Not Found',
\* 'Invalid file extension', 'JSON error', 'YAML error'.
C1_DocumentedFailuresReturnErrorRecord ==
    (pc = "done" /\ file_path # None
       /\ (MissingFile \/ BadExtension \/ MalformedContent))
    => /\ ret.kind = "return"
       /\ \E m \in LoaderMessages : ret.value = ErrorRecord(m)

\* a call on malformed JSON has returned the 'JSON error' record
C1_Witness ==
    /\ pc = "done"
    /\ file = TextOpenBrace
    /\ file_path = PathJson
    /\ ret = Returned(ErrorRecord("JSON error"))

\* C2: a call with a None or empty path does not crash and returns
\* {error: 'ValueError, path cannot be of None type'}, a record distinct from
\* the missing-file record.
C2_NoneOrEmptyPathRecord ==
    (pc = "done" /\ Falsy(file_path))
    => ret = Returned(ErrorRecord("ValueError, path cannot be of None type"))

\* C3: the outcome is decided in a fixed order: a path that is no existing
\* regular file gives 'File Not Found' whatever its extension; otherwise an
\* extension other than json and yaml gives 'Invalid file extension' with the
\* file never opened; only json reaches the JSON loader and only yaml the
\* YAML loader.
C3_FixedDispatchOrder ==
    /\ (pc = "done" /\ file_path # None /\ MissingFile) => ret = FileNotFound
    /\ (pc = "done" /\ file_path # None /\ BadExtension)
       => /\ ret = Returned(ErrorRecord("Invalid file extension"))
          /\ ~opened
          /\ loader = "none"
    /\ loader = "json" => AfterLastDot(file_path) = ExtJson
    /\ loader = "yaml" => AfterLastDot(file_path) = ExtYaml
    /\ opened => loader \in {"json", "yaml"}

\* an existing file a.json.bak was rejected for its extension, unopened
C3_Witness ==
    /\ pc = "done"
    /\ file_path = PathBak
    /\ file = TextObj
    /\ ret = Returned(ErrorRecord("Invalid file extension"))
    /\ ~opened

\* the load failed: no deserializer produced a structure
LoadFailed == parsedDoc = NoValue

\* C9: the key 'error' in the returned value is a reliable failure signal: the
\* returned value carries the key 'error' if and only if the load failed, and
\* a successful load returns the deserialized structure.
C9_ErrorKeyIffFailed ==
    (pc = "done" /\ ret.kind = "return")
    => /\ HasKey(ret.value, "error") <=> LoadFailed
       /\ ~LoadFailed => ret.value = parsedDoc

\* C10: when another process removes the file between the existence checks
\* and the open, the call still returns {error: 'File Not Found'} and does
\* not raise.
C10_RemovalBeforeOpenIsFileNotFound ==
    (pc = "done" /\ removed /\ ~opened /\ file = "absent") => ret = FileNotFound

-----------------------------------------------------------------------------
(* Properties of parse_server_url *)

ParsedScheme == urlparse(url, <<>>).scheme
ParsedNetloc == urlparse(url, <<>>).netloc

SchemeDefaultPort == IF ParsedScheme = SchemeHttps THEN 443 ELSE 80

\* the text between the first ':' of the netloc and the next one
PortToken == Before(After(ParsedNetloc, ":"), ":")

\* C4: the call raises the scheme-validation error for every URL whose scheme
\* is not http or https, and every tuple it returns has scheme http or https.
C4_SchemeValidated ==
    ppc = "done"
    => /\ ParsedScheme \notin {SchemeHttp, SchemeHttps}
          => /\ pret.kind = "raise"
             /\ pret.exc = "ValueError: only http and https schemes are allowed"
       /\ pret.kind = "return" => pret.scheme \in {SchemeHttp, SchemeHttps}

\* ftp://a.b was refused
C4_Witness ==
    /\ ppc = "done"
    /\ url = SchemeFtp \o <<":", "/", "/", "a", ".", "b">>
    /\ pret.kind = "raise"

\* C5: for an http/https URL, without a colon in the netloc the host is the
\* whole netloc and the port the scheme default (80, 443); with a colon the
\* host is the part before it and the port the integer value of the port
\* token; a port token that is no integer is reported, the port falls back to
\* the scheme default and the call still returns a tuple.
C5_HostAndPort ==
    (ppc = "done" /\ ParsedScheme \in {SchemeHttp, SchemeHttps})
    => /\ pret.kind = "return"
       /\ IF ~Contains(ParsedNetloc, ":")
          THEN /\ pret.host = ParsedNetloc
               /\ pret.port = SchemeDefaultPort
               /\ ~logged
          ELSE /\ pret.host = Before(ParsedNetloc, ":")
               /\ IF IsIntLiteral(PortToken)
                  THEN pret.port = IntValue(PortToken) /\ ~logged
                  ELSE pret.port = SchemeDefaultPort /\ logged

\* https://a.b:8x was parsed with the fallback port 443 and a diagnostic
C5_Witness ==
    /\ ppc = "done"
    /\ url = SchemeHttps \o <<":", "/", "/", "a", ".", "b", ":", "8", "x">>
    /\ pret.kind = "return"
    /\ pret.host = <<"a", ".", "b">>
    /\ pret.port = 443
    /\ logged

\* C6: every returned tuple has a non-empty host and a port in 1..65535.
C6_HostNonEmptyPortInRange ==
    (ppc = "done" /\ pret.kind = "return")
    => /\ Len(pret.host) > 0
       /\ pret.port \in 1..65535

-----------------------------------------------------------------------------
(* Properties of join_uri_path *)

RECURSIVE StripRight(_)
StripRight(s) == IF EndsWith(s, "/") THEN StripRight(SubSeq(s, 1, Len(s) - 1)) ELSE s

RECURSIVE StripLeft(_)
StripLeft(s) == IF Len(s) > 0 /\ s[1] = "/" THEN StripLeft(Tail(s)) ELSE s

\* the parts written one after the other with exactly one '/' between them
RECURSIVE Glued(_, _)
Glued(sofar, rest) ==
    IF Len(rest) = 0 THEN sofar
    ELSE Glued(StripRight(sofar) \o <<"/">> \o StripLeft(Head(rest)), Tail(rest))

\* the base followed by every segment in order; a lone base keeps or gets
\* its one trailing '/'
Accumulated(a) ==
    IF Len(a) = 1
    THEN (IF EndsWith(a[1], "/") THEN a[1] ELSE a[1] \o <<"/">>)
    ELSE Glued(a[1], Tail(a))

PlainChars == LowerLetters \cup UpperLetters \cup Digits \cup {"-", "_", "~", "."}

\* a path component with no '/', ':', '?', '#' or ';' that is not '.' or '..'
PlainComponent(c) ==
    /\ Len(c) > 0
    /\ c \notin {<<".">>, <<".", ".">>}
    /\ \A k \in 1..Len(c) : c[k] \in PlainChars

\* components separated by single '/', with an optional '/' at the end
PlainPath(parts) ==
    \A k \in 1..Len(parts) :
        PlainComponent(parts[k]) \/ (k = Len(parts) /\ parts[k] = <<>>)

\* '/' followed by plain components
PlainSegment(s) == Len(s) > 0 /\ s[1] = "/" /\ PlainPath(Split(Tail(s), "/"))

\* the text after 'http://' or 'https://'
AfterHttp(b) ==
    IF StartsWith(b, SchemeHttp \o <<":", "/", "/">>) THEN SubSeq(b, 8, Len(b))
    ELSE IF StartsWith(b, SchemeHttps \o <<":", "/", "/">>) THEN SubSeq(b, 9, Len(b))
    ELSE <<>>

\* http(s)://host, the host non-empty
BaseUrl(b) == Len(AfterHttp(b)) > 0 /\ AfterHttp(b)[1] # "/"

\* http(s)://host followed by nothing, by '/', or by a path of plain components
PlainBase(b) ==
    /\ BaseUrl(b)
    /\ \A k \in 1..Len(Split(AfterHttp(b), "/")[1]) :
           Split(AfterHttp(b), "/")[1][k] \in PlainChars \cup {":"}
    /\ PlainPath(Tail(Split(AfterHttp(b), "/")))

SegmentsOf(a) == {a[k] : k \in 2..Len(a)}

C8_LoneBaseNormalizedIdempotent ==
    (jpc = "done" /\ Len(args) = 1)
    => /\ jurl = (IF EndsWith(args[1], "/") THEN args[1] ELSE args[1] \o <<"/">>)
       /\ join_uri_path(<<jurl>>) = jurl

\* join('http://a') returned 'http://a/'
C8_Witness ==
    /\ jpc = "done"
    /\ args = <<BaseA>>
    /\ jurl = <<"h", "t", "t", "p", ":", "/", "/", "a", "/">>

====
